---- MODULE Spec2Model ----
(***************************************************************************)
(* Model of the pipeline orchestrator of src/app.py (AutomatedWorkflow,    *)
(* start_automated_workflow), of its routes, of the task writer shared by  *)
(* src/app.py and src/app2.py (update_task_in_log_file) and of the         *)
(* orchestration of src/app2.py (execute_automated_workflow).              *)
(*                                                                         *)
(* Text is a sequence of tokens.  One token is one character, except for   *)
(* the fixed words the code's patterns and template treat as units:        *)
(*   "T"  the word TASK           "="  the character =                     *)
(*   "q"  one double quote        "s"  a space       "N"  a newline        *)
(*   "H"  the scheme https://     "b"  a backslash   "n"  the letter n     *)
(*   "x"  an ordinary letter      "E"  example.com   ","  a comma          *)
(*   "I"  the line prefix `import '   "F"  the line prefix `from '         *)
(*   "A"  `As a user,'   "W"  `I want to go to '                           *)
(*   "V"  `And verify the task is completed.'                              *)
(*   "R"  the word `reset'        "Z"  the word `RESET'                      *)
(*   "Q"  the words `new test'    "O"  the words `start over'                *)
(***************************************************************************)
EXTENDS Integers, Sequences, FiniteSets, TLC

VARIABLES
    mods,         \* which stage collaborator modules were imported at startup
    registry,     \* active_workflows: the ids of the workflows created
    story,        \* per workflow: user_story
    validator,    \* per workflow: TRUE when self.validator is not None
    status,       \* per workflow: self.status
    current_step, \* per workflow: self.current_step
    steps,        \* per workflow: self.steps, indexed 0..4
    results,      \* per workflow: self.results
    target_url,   \* per workflow: self.target_url
    pc,           \* per workflow: where its background thread stands
    loc,          \* per workflow: the local variables of execute_workflow
    acts,         \* per workflow: the external actions performed, in order
    logfile,      \* content of log.py, the shared task resource
    tsDir,        \* TestSteps_Output exists
    tsFiles,      \* the files in TestSteps_Output
    jmxDir,       \* the files in JMX_SCRIPT_OUTPUT
    stamp,        \* the clock second of the last validation report written
    reports,      \* the validation report files: <<second, workflow, script>>
    session,      \* per client: the keys of its Flask session
    reply,        \* the kind of response the chat route gave last
    polled,       \* the status call being answered: what it has read so far
    tStory,       \* the writer alone: the story handed to the writer
    tApplied,     \* the writer alone: how many times the writer has run
    tFirst,       \* the writer alone: the resource after the first run
    tRet,         \* the writer alone: what the last run returned
    tPath         \* the writer alone: the path the last run took

wfvars == <<mods, registry, story, validator, status, current_step, steps,
            results, target_url, pc, loc, acts>>

fsvars == <<tsDir, tsFiles, jmxDir, stamp, reports>>

tvars == <<tStory, tApplied, tFirst, tRet, tPath>>

cvars == <<session, reply, polled>>

vars == <<mods, registry, story, validator, status, current_step, steps,
          results, target_url, pc, loc, acts, logfile, tsDir, tsFiles,
          jmxDir, stamp, reports, session, reply, polled, tStory, tApplied,
          tFirst, tRet, tPath>>

None == <<"None">>

----------------------------------------------------------------------------
(* Text helpers *)

\* \s of the regular expressions
IsSpace(c) == c \in {"s", "N"}

\* smallest j >= i with j past the end of s or s[j] whitespace
RECURSIVE SkipNonSpace(_, _)
SkipNonSpace(s, i) ==
    IF i > Len(s) \/ IsSpace(s[i]) THEN i ELSE SkipNonSpace(s, i + 1)

\* smallest j >= i with j past the end of s or s[j] not whitespace
RECURSIVE SkipSpaces(_, _)
SkipSpaces(s, i) ==
    IF i > Len(s) \/ ~IsSpace(s[i]) THEN i ELSE SkipSpaces(s, i + 1)

\* re.findall(r'https?://[^\s]+', s) from position i: the non-overlapping
\* matches, left to right
RECURSIVE FindAllUrls(_, _)
FindAllUrls(s, i) ==
    IF i > Len(s) THEN <<>>
    ELSE IF s[i] = "H" /\ i + 1 <= Len(s) /\ ~IsSpace(s[i + 1])
         THEN LET e == SkipNonSpace(s, i + 1)
              IN  <<SubSeq(s, i, e - 1)>> \o FindAllUrls(s, e)
         ELSE FindAllUrls(s, i + 1)

\* needle occurs in hay
Contains(hay, needle) ==
    \E i \in 1..(Len(hay) - Len(needle) + 1) :
        SubSeq(hay, i, i + Len(needle) - 1) = needle

DefaultUrl == <<"H", "E">>

\* urls[0] if urls else "https://example.com"
FirstUrlOrDefault(urls) ==
    IF urls # <<>> THEN urls[1] ELSE DefaultUrl

\* execute_workflow's extraction of target_url
ExtractTargetUrl(user_story) == FirstUrlOrDefault(FindAllUrls(user_story, 1))

\* update_task_in_log_file's extraction of target_url
TaskTargetUrl(user_story) == FirstUrlOrDefault(FindAllUrls(user_story, 1))

\* the f-string new_task
NewTask(url, user_story) ==
    <<"T", "s", "=", "s", "q", "q", "q", "N", "A", "N", "W">> \o url
        \o <<",", "N">> \o user_story \o <<"N", "V", "N", "q", "q", "q">>

IsTripleQuote(c, i) ==
    i + 2 <= Len(c) /\ c[i] = "q" /\ c[i + 1] = "q" /\ c[i + 2] = "q"

\* .*?""" : the first closing delimiter at or after j, 0 when there is none
RECURSIVE FindClose(_, _)
FindClose(c, j) ==
    IF j + 2 > Len(c) THEN 0
    ELSE IF IsTripleQuote(c, j) THEN j ELSE FindClose(c, j + 1)

\* task_pattern TASK\s*=\s*""".*?""" (DOTALL) anchored at i: the index of the
\* last token of the match, 0 when it does not match at i
MatchTaskAt(c, i) ==
    IF i > Len(c) \/ c[i] # "T" THEN 0
    ELSE LET e == SkipSpaces(c, i + 1)
         IN IF e > Len(c) \/ c[e] # "=" THEN 0
            ELSE LET o == SkipSpaces(c, e + 1)
                 IN IF ~IsTripleQuote(c, o) THEN 0
                    ELSE LET k == FindClose(c, o + 3)
                         IN IF k = 0 THEN 0 ELSE k + 2

\* re.search(task_pattern, c): the start of the leftmost match at or after i,
\* 0 when there is none
RECURSIVE SearchTask(_, _)
SearchTask(c, i) ==
    IF i > Len(c) THEN 0
    ELSE IF MatchTaskAt(c, i) # 0 THEN i ELSE SearchTask(c, i + 1)

\* the replacement template of re.sub: backslash escapes are interpreted.
\* \n is a newline, \\ a backslash, a backslash before an ASCII letter that is
\* no known escape is an error (re.error), before any other character it is
\* kept.  TemplateOk: the template parses.
RECURSIVE TemplateOk(_, _)
TemplateOk(t, i) ==
    IF i > Len(t) THEN TRUE
    ELSE IF t[i] # "b" THEN TemplateOk(t, i + 1)
    ELSE IF i = Len(t) THEN FALSE
    ELSE IF t[i + 1] \in {"x", "T", "H", "E", "I", "F", "A", "W", "V"} THEN FALSE
    ELSE TemplateOk(t, i + 2)

\* the text a template that parses stands for
RECURSIVE ExpandTemplate(_, _)
ExpandTemplate(t, i) ==
    IF i > Len(t) THEN <<>>
    ELSE IF t[i] # "b" THEN <<t[i]>> \o ExpandTemplate(t, i + 1)
    ELSE IF t[i + 1] = "n" THEN <<"N">> \o ExpandTemplate(t, i + 2)
    ELSE IF t[i + 1] = "b" THEN <<"b">> \o ExpandTemplate(t, i + 2)
    ELSE <<"b", t[i + 1]>> \o ExpandTemplate(t, i + 2)

\* re.sub(task_pattern, repl, c) from position i, repl already expanded:
\* every non-overlapping match is replaced
RECURSIVE SubTask(_, _, _)
SubTask(c, i, repl) ==
    LET m == SearchTask(c, i)
    IN  IF m = 0 THEN SubSeq(c, i, Len(c))
        ELSE SubSeq(c, i, m - 1) \o repl \o SubTask(c, MatchTaskAt(c, m) + 1, repl)

\* content.split('\n') : the start of the line holding position i is i itself
\* after a newline or at 1
LineStarts(c) == {1} \cup {i + 1 : i \in {j \in 1..Len(c) : c[j] = "N"}}

\* line.startswith('import ') or line.startswith('from ')
IsImportLine(c, i) == i <= Len(c) /\ c[i] \in {"I", "F"}

\* the index in c where line number insert_index starts: after the last
\* import line, or 1 when there is none (insert_index = 0)
InsertPos(c) ==
    LET imps == {i \in LineStarts(c) : IsImportLine(c, i)}
    IN  IF imps = {} THEN 1
        ELSE LET last == CHOOSE i \in imps : \A j \in imps : j <= i
                 e == CHOOSE k \in last..(Len(c) + 1) :
                        /\ (k = Len(c) + 1 \/ c[k] = "N")
                        /\ \A j \in last..(k - 1) : c[j] # "N"
             IN  e + 1

\* lines.insert(insert_index, '\n' + new_task + '\n'); '\n'.join(lines)
InsertTask(c, newTask) ==
    LET p == InsertPos(c)
        item == <<"N">> \o newTask \o <<"N">>
    IN  IF p = Len(c) + 2
        THEN c \o <<"N">> \o item
        ELSE SubSeq(c, 1, p - 1) \o item \o <<"N">> \o SubSeq(c, p, Len(c))

\* which branch of update_task_in_log_file a content takes
TaskPath(c) == IF SearchTask(c, 1) # 0 THEN "replace" ELSE "insert"

IoFaults == {"none", "read", "open_w", "write"}

\* the mutant does not notice an I/O fault and reports success
UpdateTaskInLogFileBlind(c, user_story, io) ==
    <<TaskTargetUrl(user_story), c>>

\* update_task_in_log_file(user_story) on resource content c under I/O fault
\* io: <<return value, resource afterwards>>.  Every exception is caught and
\* gives None.  A fault on read or on opening for write leaves the resource
\* alone; a fault while writing leaves the truncated (empty) file.
UpdateTaskInLogFile(c, user_story, io) ==
    LET url == TaskTargetUrl(user_story)
        newTask == NewTask(url, user_story)
    IN  IF io \in {"read", "open_w"} THEN <<None, c>>
        ELSE IF SearchTask(c, 1) # 0
             THEN IF ~TemplateOk(newTask, 1) THEN <<None, c>>
                  ELSE IF io = "write" THEN <<None, <<>>>>
                  ELSE <<url, SubTask(c, 1, ExpandTemplate(newTask, 1))>>
             ELSE IF io = "write" THEN <<None, <<>>>>
                  ELSE <<url, InsertTask(c, newTask)>>

----------------------------------------------------------------------------
(* The workflow: state and helpers *)

MaxWorkflows == 2
MaxJmx == 2

Workflows == 1..MaxWorkflows
StepIdx == 0..4
NoStory == <<>>

\* the messages sent to the chat route: a story with one URL, a story with
\* two URLs of which the first holds a backslash escape, and one with no URL
Messages == { <<"x", "s", "H", "x">>, <<"H", "b", "n", "s", "H", "x">>,
              <<"x", "s", "x">> }

\* log.py as shipped: an import line, a TASK block, code
InitialLog ==
    <<"I", "x", "N", "T", "s", "=", "s", "q", "q", "q", "x", "q", "q", "q",
      "N", "x">>

\* self.steps as built by __init__
InitialSteps == [i \in StepIdx |-> [status |-> "pending", message |-> <<>>]]

\* task_at_launch remembers the text of log.py its child started from,
\* produced the files its PTScript.py child wrote
NoLocals ==
    [result |-> None, ended |-> "none", output_files |-> <<>>,
     actual_files |-> None, jmx_files |-> <<>>, validation_results |-> <<>>,
     exc |-> <<>>, task_at_launch |-> None, produced |-> {}]

EmptyResults == <<>>

\* the mutant forgets the other keys of the dict
PutAlone(d, k, v) == [x \in {k} |-> v]

\* d[k] = v on a dict
Put(d, k, v) == [x \in (DOMAIN d) \cup {k} |-> IF x = k THEN v ELSE d[x]]

\* update_step_status: the steps list afterwards
StepsAfterUpdate(st, step_index, newStatus, message) ==
    IF step_index \in StepIdx
    THEN [st EXCEPT ![step_index] = [status |-> newStatus, message |-> message]]
    ELSE st

\* the mutant leaves current_step where it was
CurrentAfterUpdateStale(cur, step_index) == cur

\* update_step_status: current_step afterwards
CurrentAfterUpdate(cur, step_index) ==
    IF step_index \in StepIdx THEN step_index ELSE cur

\* self.update_step_status(step_index, status, message) of workflow w
UpdateStepStatus(w, step_index, newStatus, message) ==
    /\ steps' = [steps EXCEPT ![w] =
                    StepsAfterUpdate(steps[w], step_index, newStatus, message)]
    /\ current_step' = [current_step EXCEPT ![w] =
                    CurrentAfterUpdate(current_step[w], step_index)]

TimeoutLog == 300
TimeoutTestSteps == 120
\* the mutant runs script generation with the runner's default timeout
TimeoutPTScriptDefault == TimeoutLog

TimeoutPTScript == 180

RunKinds == {"exit0", "exit1", "timeout", "fault"}

\* the mutant reports the exit code only and takes a child that did not
\* exit normally for one that did
RunScriptResultRaw(kind, timeout) ==
    [success |-> kind # "exit1", returncode |-> IF kind = "exit1" THEN 1 ELSE 0,
     stdout |-> <<>>, stderr |-> <<>>]

\* run_script_with_timeout: the record returned for each way the child ends
RunScriptResult(kind, timeout) ==
    LET code == IF kind = "exit0" THEN 0 ELSE IF kind = "exit1" THEN 1 ELSE -1
    IN  [success |-> IF kind \in {"exit0", "exit1"} THEN code = 0 ELSE FALSE,
         returncode |-> code,
         stdout |-> IF kind \in {"exit0", "exit1"} THEN <<"out">> ELSE <<>>,
         stderr |-> CASE kind = "exit0" -> <<>>
                      [] kind = "exit1" -> <<"err">>
                      [] kind = "timeout" -> <<"timed out after", timeout>>
                      [] OTHER -> <<"launch error">>]

\* where a stage's explicit failure branch goes: self.status = "failed"; return
\* (the mutant falls through to the next stage instead)
AfterStageFailedFallThrough(next) == next

\* the mutant tries again from the task write instead of giving up
AfterStageFailedRetry(next) == "s2_task"

AfterStageFailed(next) == "set_failed"

\* the step the outer handler blames: self.current_step
BlamedStep(w) == current_step[w]

SetPc(w, p) == pc' = [pc EXCEPT ![w] = p]
SetLoc(w, field, v) == loc' = [loc EXCEPT ![w][field] = v]
Did(w, a) == acts' = [acts EXCEPT ![w] = Append(@, a)]

\* result = self.run_script_with_timeout(...): the local is bound to the
\* record; ended remembers how the child ended
SetResult(w, kind, result) ==
    loc' = [loc EXCEPT ![w].result = result, ![w].ended = kind]

\* an exception escapes to the handler of execute_workflow
Raise(w, e) ==
    /\ pc' = [pc EXCEPT ![w] = "exc"]
    /\ loc' = [loc EXCEPT ![w].exc = e]

\* no workflow was created yet
NoWorkflows ==
    /\ registry = {}
    /\ story = [w \in Workflows |-> NoStory]
    /\ validator = [w \in Workflows |-> FALSE]
    /\ status = [w \in Workflows |-> "none"]
    /\ current_step = [w \in Workflows |-> 0]
    /\ steps = [w \in Workflows |-> InitialSteps]
    /\ results = [w \in Workflows |-> EmptyResults]
    /\ target_url = [w \in Workflows |-> None]
    /\ pc = [w \in Workflows |-> "none"]
    /\ loc = [w \in Workflows |-> NoLocals]
    /\ acts = [w \in Workflows |-> <<>>]

WfInit ==
    /\ NoWorkflows
    /\ tsDir = FALSE
    /\ tsFiles = {}
    /\ jmxDir = {}
    /\ stamp = 0
    /\ reports = {}

\* session['current_workflow'] = None: no workflow id
NoWorkflow == 0

\* a client that has not loaded the page yet: its session holds no key
FreshSession == [current_workflow |-> NoWorkflow, messages |-> FALSE]

\* index(): session['messages'] = [] and session['current_workflow'] = None
\* are set when absent.  Of the transcript only the presence of its key is
\* followed: no route reads its content.  An absent current_workflow reads
\* as None (session.get)
PageLoaded(ses) == [ses EXCEPT !.messages = TRUE]

\* no request was answered yet
NoReply == "none"

\* no status call is being answered
NoPoll == [workflow_id |-> NoWorkflow]

TaskIdle ==
    /\ tStory = NoStory
    /\ tApplied = 0
    /\ tFirst = <<>>
    /\ tRet = None
    /\ tPath = "none"

ModuleNames == {"log", "TestSteps", "PTScript", "validation"}

\* the mutant is content with one module
ModulesAvailableAny == \E m \in ModuleNames : mods[m]

\* MODULES_AVAILABLE
ModulesAvailable == \A m \in ModuleNames : mods[m]

MaxSessions == 2

Sessions == 1..MaxSessions

\* the client whose submission Spec follows
FirstClient == 1

\* the state after startup, the clients having loaded the page
Init ==
    /\ mods \in [ModuleNames -> BOOLEAN]
    /\ WfInit
    /\ logfile = InitialLog
    /\ session = [s \in Sessions |-> PageLoaded(FreshSession)]
    /\ reply = NoReply
    /\ polled = NoPoll
    /\ TaskIdle

----------------------------------------------------------------------------
(* The chat route, start_automated_workflow and AutomatedWorkflow.__init__ *)

\* the mutant starts the thread of a workflow it does not register
RegisteredNever(reg, w) == reg

\* active_workflows[workflow_id] = workflow
Registered(reg, w) == reg \cup {w}

\* start_automated_workflow(user_story): the id is fresh; the validator is
\* built only when every module loaded and its constructor does not raise
StartWorkflow(w, user_story) ==
    /\ w \notin registry
    /\ w = Cardinality(registry) + 1
    /\ story' = [story EXCEPT ![w] = user_story]
    /\ \E ctorOk \in BOOLEAN :
         validator' = [validator EXCEPT ![w] =
                          ModulesAvailable /\ mods["validation"] /\ ctorOk]
    /\ registry' = Registered(registry, w)
    /\ status' = [status EXCEPT ![w] = "initializing"]
    /\ SetPc(w, "begin")
    /\ UNCHANGED <<mods, current_step, steps, results, target_url, loc, acts,
                   logfile, fsvars, tvars>>

\* str.strip(): white space is removed at both ends
RECURSIVE StripLeft(_)
StripLeft(s) ==
    IF s # <<>> /\ IsSpace(Head(s)) THEN StripLeft(Tail(s)) ELSE s

RECURSIVE StripRight(_)
StripRight(s) ==
    IF s # <<>> /\ IsSpace(s[Len(s)])
    THEN StripRight(SubSeq(s, 1, Len(s) - 1)) ELSE s

Strip(s) == StripRight(StripLeft(s))

\* str.lower(): of the words of the legend only RESET has a lower-case form
\* that the route looks for
Lower(s) == [i \in DOMAIN s |-> IF s[i] = "Z" THEN "R" ELSE s[i]]

\* ['reset', 'new test', 'start over']
ResetWords == {<<"R">>, <<"Q">>, <<"O">>}

\* the workflow of the session exists and is running or initializing
InProgress(s) ==
    LET current_workflow_id == session[s].current_workflow
    IN  /\ current_workflow_id # NoWorkflow
        /\ current_workflow_id \in registry
        /\ status[current_workflow_id] \in {"running", "initializing"}

\* the branch chat() takes for the trimmed message, named by its response
ChatCase(s, user_input) ==
    IF user_input = <<>> THEN "EmptyMessage"
    ELSE IF Lower(user_input) \in ResetWords THEN "ResetComplete"
    ELSE IF InProgress(s) THEN "WorkflowInProgress"
    ELSE IF ~ModulesAvailable THEN "CannotStart"
    ELSE IF FindAllUrls(user_input, 1) = <<>> THEN "ProvideUrl"
    ELSE "WorkflowStarted"

\* the response the client gets: the three branches that add to the
\* transcript read session['messages'], a KeyError (answered with status
\* 500) when the client never loaded the page nor reset
ChatResponse(s, user_input) ==
    LET case == ChatCase(s, user_input)
    IN  IF case \in {"CannotStart", "ProvideUrl", "WorkflowStarted"}
           /\ ~session[s].messages
        THEN "ServerError"
        ELSE case

\* chat(): POST /chat of client s with the message
ChatRequest(s, message) ==
    LET user_input == Strip(message)
        case == ChatCase(s, user_input)
    IN  /\ IF case = "WorkflowStarted"
           THEN \E w \in Workflows :
                  /\ StartWorkflow(w, user_input)
                  /\ session' = [session EXCEPT ![s].current_workflow = w]
                  /\ reply' = ChatResponse(s, user_input)
           ELSE /\ session' = IF case = "ResetComplete"
                              THEN [session EXCEPT ![s] =
                                       [current_workflow |-> NoWorkflow,
                                        messages |-> TRUE]]
                              ELSE session
                /\ reply' = ChatResponse(s, user_input)
                /\ UNCHANGED <<wfvars, logfile, fsvars, tvars>>
        /\ UNCHANGED polled

\* index(): GET / of client s
Index(s) ==
    /\ session' = [session EXCEPT ![s] = PageLoaded(@)]
    /\ UNCHANGED <<wfvars, logfile, fsvars, tvars, reply, polled>>

\* workflow_status(workflow_id): the status update of a registered workflow,
\* not found for any other id
NotFound == [error |-> "not found", code |-> 404]

GetStatusUpdate(w) ==
    [workflow_id |-> w, status |-> status[w], current_step |-> current_step[w],
     steps |-> steps[w], results |-> results[w]]

WorkflowStatus(workflow_id) ==
    IF workflow_id \in registry THEN GetStatusUpdate(workflow_id) ELSE NotFound

\* workflow_status(workflow_id) while the threads run: get_status_update
\* builds the dict, which holds the values of status and current_step as
\* they are now and the lists steps and results themselves
StatusRead(workflow_id) ==
    /\ polled = NoPoll
    /\ workflow_id \in registry
    /\ polled' = [workflow_id |-> workflow_id, status |-> status[workflow_id],
                  current_step |-> current_step[workflow_id]]
    /\ UNCHANGED <<wfvars, logfile, fsvars, tvars, session, reply>>

\* what jsonify sends for the dict: steps and results are read as they are
\* when the response is serialised
StatusSent ==
    [workflow_id |-> polled.workflow_id, status |-> polled.status,
     current_step |-> polled.current_step,
     steps |-> steps[polled.workflow_id],
     results |-> results[polled.workflow_id]]

\* jsonify(...) of workflow_status: the response leaves
StatusSend ==
    /\ polled # NoPoll
    /\ polled' = NoPoll
    /\ UNCHANGED <<wfvars, logfile, fsvars, tvars, session, reply>>

\* results() for client s
Results(s) ==
    LET current_workflow_id == session[s].current_workflow
    IN  IF current_workflow_id # NoWorkflow /\ current_workflow_id \in registry
        THEN [workflow_id |-> current_workflow_id,
              status |-> status[current_workflow_id],
              results |-> results[current_workflow_id]]
        ELSE NotFound

----------------------------------------------------------------------------
(* execute_workflow, one action per observable step of the thread *)

\* self.status = "running"
Begin(w) ==
    /\ pc[w] = "begin"
    /\ status' = [status EXCEPT ![w] = "running"]
    /\ SetPc(w, "s1_start")
    /\ UNCHANGED <<mods, registry, story, validator, current_step, steps,
                   results, target_url, loc, acts, logfile, fsvars, tvars, cvars>>

\* step 1 is marked running
S1Start(w) ==
    /\ pc[w] = "s1_start"
    /\ UpdateStepStatus(w, 0, "running", <<"Analyzing">>)
    /\ SetPc(w, "s1_plan")
    /\ UNCHANGED <<mods, registry, story, validator, status, results,
                   target_url, loc, acts, logfile, fsvars, tvars, cvars>>

\* the URL is extracted and step 1 completed with the planning message
S1Plan(w) ==
    /\ pc[w] = "s1_plan"
    /\ LET url == ExtractTargetUrl(story[w])
       IN  /\ target_url' = [target_url EXCEPT ![w] = url]
           /\ UpdateStepStatus(w, 0, "completed",
                               <<"AnalysisComplete", url, story[w]>>)
    /\ SetPc(w, "s2_check")
    /\ UNCHANGED <<mods, registry, story, validator, status, results, loc,
                   acts, logfile, fsvars, tvars, cvars>>

\* the mutant takes the loaded module for the missing one
ModuleMissingInverted(module) == mods[module]

\* if not network_logger_module (test_steps_module, jmx_generator_module)
ModuleMissing(module) == ~mods[module]

\* the module check that opens stages 2, 3 and 4: the step is failed without
\* ever running when the module is missing, else marked running
ModuleCheck(w, at, module, k, file, next) ==
    /\ pc[w] = at
    /\ IF ModuleMissing(module)
       THEN /\ UpdateStepStatus(w, k, "failed", <<"ModuleNotAvailable", file>>)
            /\ SetPc(w, AfterStageFailed(next))
       ELSE /\ UpdateStepStatus(w, k, "running", <<"Running", k>>)
            /\ SetPc(w, next)
    /\ UNCHANGED <<mods, registry, story, validator, status, results,
                   target_url, loc, acts, logfile, fsvars, tvars, cvars>>

S2Check(w) == ModuleCheck(w, "s2_check", "log", 1, "log.py", "s2_task")

\* update_task_in_log_file(self.user_story) under I/O fault io; a None
\* return fails step 2
S2TaskUnder(w, io) ==
    \E r \in {UpdateTaskInLogFile(logfile, story[w], io)} :
        /\ logfile' = r[2]
        /\ IF r[1] = None
           THEN /\ UpdateStepStatus(w, 1, "failed", <<"TaskUpdateFailed">>)
                /\ SetPc(w, AfterStageFailed("s2_launch"))
           ELSE /\ SetPc(w, "s2_launch")
                /\ UNCHANGED <<steps, current_step>>
        /\ Did(w, <<"task_write", io>>)

\* the task write: the file cannot be read or opened, or it is rewritten
\* (the write itself may fail)
S2Task(w) ==
    /\ pc[w] = "s2_task"
    /\ \/ \E io \in {"read", "open_w"} : S2TaskUnder(w, io)
       \/ \E io \in IoFaults \ {"read", "open_w"} : S2TaskUnder(w, io)
    /\ UNCHANGED <<mods, registry, story, validator, status, results,
                   target_url, loc, fsvars, tvars, cvars>>

\* subprocess.run is entered: the child is launched with its timeout; the
\* child of stage 2 is python running log.py as the file is now
Launch(w, at, script, timeout, next) ==
    /\ pc[w] = at
    /\ Did(w, <<"run", script, timeout>>)
    /\ SetPc(w, next)
    /\ loc' = [loc EXCEPT ![w].task_at_launch =
                   IF script = "log.py" THEN logfile ELSE @]
    /\ UNCHANGED <<mods, registry, story, validator, status, current_step,
                   steps, results, target_url, logfile, fsvars, tvars, cvars>>

S2Launch(w) == Launch(w, "s2_launch", "log.py", TimeoutLog, "s2_wait")

\* log.py ends: step 2 is completed or failed with the runner's stderr
S2Return(w) ==
    /\ pc[w] = "s2_wait"
    /\ \E kind \in RunKinds :
         LET result == RunScriptResult(kind, TimeoutLog)
         IN  IF result.success
             THEN /\ UpdateStepStatus(w, 1, "completed",
                        <<"NetworkLoggingComplete", target_url[w]>>)
                  /\ SetResult(w, kind, result)
                  /\ SetPc(w, "s2_store")
             ELSE /\ UpdateStepStatus(w, 1, "failed",
                        <<"NetworkLoggingFailed", result.stderr>>)
                  /\ SetPc(w, AfterStageFailed("s2_store"))
                  /\ SetResult(w, kind, result)
    /\ UNCHANGED <<mods, registry, story, validator, status, results,
                   target_url, acts, logfile, fsvars, tvars, cvars>>

\* self.results[key] = value
Store(w, at, key, value, next) ==
    /\ pc[w] = at
    /\ results' = [results EXCEPT ![w] = Put(@, key, value)]
    /\ SetPc(w, next)
    /\ UNCHANGED <<mods, registry, story, validator, status, current_step,
                   steps, target_url, loc, acts, logfile, fsvars, tvars, cvars>>

S2Store(w) == Store(w, "s2_store", "network_logging", loc[w].result, "s3_check")

\* self.status = "failed"; return
SetFailed(w) ==
    /\ pc[w] = "set_failed"
    /\ status' = [status EXCEPT ![w] = "failed"]
    /\ SetPc(w, "done")
    /\ UNCHANGED <<mods, registry, story, validator, current_step, steps,
                   results, target_url, loc, acts, logfile, fsvars, tvars, cvars>>

\* the handler of execute_workflow: self.status = "failed"
ExcStatus(w) ==
    /\ pc[w] = "exc"
    /\ status' = [status EXCEPT ![w] = "failed"]
    /\ SetPc(w, "exc_mark")
    /\ UNCHANGED <<mods, registry, story, validator, current_step, steps,
                   results, target_url, loc, acts, logfile, fsvars, tvars, cvars>>

\* the handler of execute_workflow: the blamed step is marked failed
ExcMark(w) ==
    /\ pc[w] = "exc_mark"
    /\ UpdateStepStatus(w, BlamedStep(w), "failed",
                        <<"WorkflowError", loc[w].exc>>)
    /\ SetPc(w, "done")
    /\ UNCHANGED <<mods, registry, story, validator, status, results,
                   target_url, loc, acts, logfile, fsvars, tvars, cvars>>

----------------------------------------------------------------------------
(* Stage 3: test steps generation *)

TsExpected ==
    <<"TestSteps_Output/test_steps_structured.json",
      "TestSteps_Output/test_steps_simple.json",
      "TestSteps_Output/TestSteps.txt",
      "TestSteps_Output/correlation_rules.json">>

\* the files TestSteps.py may leave in TestSteps_Output: an expected one and
\* one under another name
TsUniverse ==
    {"TestSteps_Output/test_steps_structured.json", "TestSteps_Output/steps.out"}

\* the orders in which a directory walk may list a set of files
Orderings(S) ==
    {s \in [1..Cardinality(S) -> S] : \A i, j \in 1..Cardinality(S) :
                                          i # j => s[i] # s[j]}

RECURSIVE Filter(_, _)
Filter(s, keep) ==
    IF s = <<>> THEN <<>>
    ELSE (IF Head(s) \in keep THEN <<Head(s)>> ELSE <<>>) \o Filter(Tail(s), keep)

Range(s) == {s[i] : i \in DOMAIN s}

S3Check(w) ==
    ModuleCheck(w, "s3_check", "TestSteps", 2, "TestSteps.py", "s3_mkdir")

\* os.makedirs('TestSteps_Output', exist_ok=True): the directory exists
\* afterwards, or the call raises
S3Mkdir(w) ==
    /\ pc[w] = "s3_mkdir"
    /\ \E fault \in BOOLEAN :
         IF fault
         THEN /\ Raise(w, <<"OSError">>)
              /\ UNCHANGED fsvars
         ELSE /\ tsDir' = TRUE
              /\ SetPc(w, "s3_launch")
              /\ UNCHANGED <<loc, tsFiles, jmxDir, stamp, reports>>
    /\ UNCHANGED <<mods, registry, story, validator, status, current_step,
                   steps, results, target_url, acts, logfile, tvars, cvars>>

S3Launch(w) ==
    Launch(w, "s3_launch", "TestSteps.py", TimeoutTestSteps, "s3_wait")

\* TestSteps.py ends, having left the output directory in any state
S3Return(w) ==
    /\ pc[w] = "s3_wait"
    /\ \E kind \in RunKinds :
         LET result == RunScriptResult(kind, TimeoutTestSteps)
         IN  /\ IF kind = "fault"
                THEN UNCHANGED fsvars
                ELSE /\ \E d \in BOOLEAN, fs \in SUBSET TsUniverse :
                          /\ tsDir' = d
                          /\ tsFiles' = IF d THEN fs ELSE {}
                     /\ UNCHANGED <<jmxDir, stamp, reports>>
             /\ IF result.success
                THEN /\ SetResult(w, kind, result)
                     /\ SetPc(w, "s3_scan_expected")
                     /\ UNCHANGED <<steps, current_step>>
                ELSE /\ UpdateStepStatus(w, 2, "failed",
                           <<"TestStepsFailed", result.stderr>>)
                     /\ SetPc(w, AfterStageFailed("s3_scan_expected"))
                     /\ SetResult(w, kind, result)
    /\ UNCHANGED <<mods, registry, story, validator, status, results,
                   target_url, acts, logfile, tvars, cvars>>

\* the loop over expected_files: os.path.exists, then os.path.getsize, which
\* raises when the file is gone by then
S3ScanExpected(w) ==
    /\ pc[w] = "s3_scan_expected"
    /\ \/ /\ SetLoc(w, "output_files", Filter(TsExpected, tsFiles))
          /\ SetPc(w, "s3_scan_dir")
          /\ UNCHANGED fsvars
       \/ \E f \in tsFiles \cap Range(TsExpected) :
             /\ tsFiles' = tsFiles \ {f}
             /\ Raise(w, <<"FileNotFoundError">>)
             /\ UNCHANGED <<tsDir, jmxDir, stamp, reports>>
    /\ UNCHANGED <<mods, registry, story, validator, status, current_step,
                   steps, results, target_url, acts, logfile, tvars, cvars>>

\* if os.path.exists('TestSteps_Output'): actual_files is defined by the walk
\* and the files not yet listed are added; otherwise actual_files stays
\* undefined
S3ScanDir(w) ==
    /\ pc[w] = "s3_scan_dir"
    /\ IF tsDir
       THEN \E walk \in Orderings(tsFiles) :
              loc' = [loc EXCEPT
                 ![w].actual_files = walk,
                 ![w].output_files =
                     @ \o Filter(walk, tsFiles \ Range(loc[w].output_files))]
       ELSE UNCHANGED loc
    /\ SetPc(w, "s3_complete")
    /\ UNCHANGED <<mods, registry, story, validator, status, current_step,
                   steps, results, target_url, acts, logfile, fsvars, tvars, cvars>>

\* step 3 is marked completed
S3Complete(w) ==
    /\ pc[w] = "s3_complete"
    /\ UpdateStepStatus(w, 2, "completed",
                        <<"TestStepsComplete", loc[w].output_files>>)
    /\ SetPc(w, "s3_store1")
    /\ UNCHANGED <<mods, registry, story, validator, status, results,
                   target_url, loc, acts, logfile, fsvars, tvars, cvars>>

S3Store1(w) == Store(w, "s3_store1", "test_steps", loc[w].result, "s3_store2")

S3Store2(w) ==
    Store(w, "s3_store2", "output_files", loc[w].output_files, "s3_debug")

\* the teststeps_debug entry: actual_files is read when the directory exists
\* now, and is unbound (NameError) when it did not exist at the scan
S3Debug(w) ==
    /\ pc[w] = "s3_debug"
    /\ IF tsDir /\ loc[w].actual_files = None
       THEN /\ Raise(w, <<"NameError">>)
            /\ UNCHANGED results
       ELSE /\ results' = [results EXCEPT ![w] = Put(@, "teststeps_debug",
                  [output_directory_exists |-> tsDir,
                   found_files |-> loc[w].output_files,
                   actual_directory_contents |->
                       IF tsDir THEN loc[w].actual_files ELSE <<>>])]
            /\ SetPc(w, "s4_check")
            /\ UNCHANGED loc
    /\ UNCHANGED <<mods, registry, story, validator, status, current_step,
                   steps, target_url, acts, logfile, fsvars, tvars, cvars>>

----------------------------------------------------------------------------
(* Stage 4: JMX generation *)

JmxScripts == {<<"JMX_SCRIPT_OUTPUT/script", i, ".jmx">> : i \in 1..MaxJmx}

\* what PTScript.py may leave in JMX_SCRIPT_OUTPUT
JmxUniverse == JmxScripts \cup {<<"JMX_SCRIPT_OUTPUT/notes", 0, ".txt">>}

\* file.endswith('.jmx')
IsJmx(f) == f[3] = ".jmx"

S4Check(w) ==
    ModuleCheck(w, "s4_check", "PTScript", 3, "PTScript.py", "s4_mkdir")

\* os.makedirs('JMX_SCRIPT_OUTPUT', exist_ok=True)
S4Mkdir(w) ==
    /\ pc[w] = "s4_mkdir"
    /\ \E fault \in BOOLEAN :
         IF fault THEN Raise(w, <<"OSError">>)
         ELSE (SetPc(w, "s4_launch") /\ UNCHANGED loc)
    /\ UNCHANGED <<mods, registry, story, validator, status, current_step,
                   steps, results, target_url, acts, logfile, fsvars, tvars, cvars>>

S4Launch(w) ==
    Launch(w, "s4_launch", "PTScript.py", TimeoutPTScript, "s4_wait")

\* PTScript.py ends, having written any files into the output directory
\* (none when it could not be launched); what was there stays
S4Return(w) ==
    /\ pc[w] = "s4_wait"
    /\ \E kind \in RunKinds :
         LET result == RunScriptResult(kind, TimeoutPTScript)
         IN  /\ \E new \in (IF kind = "fault" THEN {{}} ELSE SUBSET JmxUniverse) :
                   /\ jmxDir' = jmxDir \cup new
                   /\ loc' = [loc EXCEPT ![w].result = result,
                                          ![w].ended = kind,
                                          ![w].produced = new]
             /\ UNCHANGED <<tsDir, tsFiles, stamp, reports>>
             /\ IF result.success
                THEN /\ SetPc(w, "s4_scan")
                     /\ UNCHANGED <<steps, current_step>>
                ELSE /\ UpdateStepStatus(w, 3, "failed",
                           <<"JmxFailed", result.stderr>>)
                     /\ SetPc(w, AfterStageFailed("s4_scan"))
    /\ UNCHANGED <<mods, registry, story, validator, status, results,
                   target_url, acts, logfile, tvars, cvars>>

\* the walk of JMX_SCRIPT_OUTPUT for *.jmx, then step 4 is marked completed
S4Scan(w) ==
    /\ pc[w] = "s4_scan"
    /\ \E walk \in Orderings({f \in jmxDir : IsJmx(f)}) :
         /\ SetLoc(w, "jmx_files", walk)
         /\ UpdateStepStatus(w, 3, "completed", <<"JmxComplete", Len(walk)>>)
    /\ SetPc(w, "s4_store1")
    /\ UNCHANGED <<mods, registry, story, validator, status, results,
                   target_url, acts, logfile, fsvars, tvars, cvars>>

S4Store1(w) ==
    Store(w, "s4_store1", "jmx_generation", loc[w].result, "s4_store2")

S4Store2(w) == Store(w, "s4_store2", "jmx_files", loc[w].jmx_files, "s5_check")

----------------------------------------------------------------------------
(* Stage 5: validation *)

Verdicts == {"pass", "warning", "fail", "other"}

\* what validate_jmx_file may return: a dict with one of the verdicts, or
\* one without the overall_status key
ValidatorResult(out) ==
    IF out = "missing" THEN [errors |-> <<>>] ELSE [overall_status |-> out]

\* vr['result'].get('overall_status'): None when the key is missing
OverallStatus(result) ==
    IF "overall_status" \in DOMAIN result THEN result.overall_status ELSE "None"

\* the mutant counts an artifact without a known verdict in every class
TallyLoose(vrs, v) ==
    Cardinality({i \in DOMAIN vrs :
        OverallStatus(vrs[i].result) \notin {"pass", "warning", "fail"} \ {v}})

\* sum(1 for vr in validation_results if overall_status == v)
Tally(vrs, v) ==
    Cardinality({i \in DOMAIN vrs : OverallStatus(vrs[i].result) = v})

\* the completion message with the three counts: passed, warnings, failed
TallyMessage(vrs) ==
    <<"ValidationComplete", Tally(vrs, "pass"), Tally(vrs, "warning"),
      Tally(vrs, "fail")>>

\* if not validation_module or not self.validator
S5Check(w) ==
    /\ pc[w] = "s5_check"
    /\ IF ~mods["validation"] \/ ~validator[w]
       THEN /\ UpdateStepStatus(w, 4, "failed",
                                <<"ModuleNotAvailable", "validation.py">>)
            /\ SetPc(w, AfterStageFailed("s5_get"))
       ELSE /\ UpdateStepStatus(w, 4, "running", <<"Running", 4>>)
            /\ SetPc(w, "s5_get")
    /\ UNCHANGED <<mods, registry, story, validator, status, results,
                   target_url, loc, acts, logfile, fsvars, tvars, cvars>>

\* the mutant never finds the list empty
NoJmxFilesNever(files) == FALSE

\* if not jmx_files
NoJmxFiles(files) == files = <<>>

\* jmx_files = self.results.get('jmx_files', []); no file fails step 5
S5Get(w) ==
    /\ pc[w] = "s5_get"
    /\ LET files == IF "jmx_files" \in DOMAIN results[w]
                    THEN results[w]["jmx_files"] ELSE <<>>
       IN  IF NoJmxFiles(files)
           THEN /\ UpdateStepStatus(w, 4, "failed", <<"NoJmxFiles">>)
                /\ SetPc(w, AfterStageFailed("s5_validate"))
                /\ UNCHANGED loc
           ELSE /\ loc' = [loc EXCEPT ![w].jmx_files = files,
                                      ![w].validation_results = <<>>]
                /\ SetPc(w, IF files = <<>> THEN "s5_tally" ELSE "s5_validate")
                /\ UNCHANGED <<steps, current_step>>
    /\ UNCHANGED <<mods, registry, story, validator, status, results,
                   target_url, acts, logfile, fsvars, tvars, cvars>>

\* the inner handler: step 5 failed with the exception's text
ValidationFailed(w, e) ==
    /\ UpdateStepStatus(w, 4, "failed", <<"ValidationFailed", e>>)
    /\ SetPc(w, AfterStageFailed("s5_tally"))

\* self.validator.validate_jmx_file(jmx_file) on the next file: it returns a
\* verdict, raises, or never returns (the call has no timeout)
S5Validate(w) ==
    /\ pc[w] = "s5_validate"
    /\ LET file == loc[w].jmx_files[Len(loc[w].validation_results) + 1]
       IN  /\ Did(w, <<"validate", file>>)
           /\ \E out \in Verdicts \cup {"missing", "raise", "hang"} :
                CASE out = "raise" ->
                       /\ ValidationFailed(w, <<"validator error">>)
                       /\ UNCHANGED loc
                  [] out = "hang" ->
                       /\ SetPc(w, "s5_hung")
                       /\ UNCHANGED <<loc, steps, current_step>>
                  [] OTHER ->
                       /\ loc' = [loc EXCEPT ![w].validation_results =
                              Append(@, [file |-> file,
                                         result |-> ValidatorResult(out)])]
                       /\ SetPc(w, "s5_report")
                       /\ UNCHANGED <<steps, current_step>>
    /\ UNCHANGED <<mods, registry, story, validator, status, results,
                   target_url, logfile, fsvars, tvars, cvars>>

\* report_path = f"validation_report_{datetime.now():%Y%m%d_%H%M%S}.json":
\* the path is the clock second: a later one than that of the last report,
\* or the same one when a report was written in it
ReportSeconds ==
    IF \E r \in reports : r[1] = stamp THEN {stamp, stamp + 1} ELSE {stamp + 1}

\* writing the file at a path replaces what was there
ReportWritten(t, w, file) == {r \in reports : r[1] # t} \cup {<<t, w, file>>}

\* self.validator.generate_validation_report(validation_result, report_path):
\* the report of the script just validated is written, or the call raises
S5Report(w) ==
    /\ pc[w] = "s5_report"
    /\ \E fault \in BOOLEAN :
         IF fault
         THEN /\ ValidationFailed(w, <<"report error">>)
              /\ UNCHANGED <<acts, stamp, reports>>
         ELSE /\ \E t \in ReportSeconds :
                   /\ stamp' = t
                   /\ reports' = ReportWritten(t, w,
                         loc[w].validation_results[Len(loc[w].validation_results)].file)
              /\ Did(w, <<"report", Len(loc[w].validation_results)>>)
              /\ SetPc(w, IF Len(loc[w].validation_results) < Len(loc[w].jmx_files)
                          THEN "s5_validate" ELSE "s5_tally")
              /\ UNCHANGED <<steps, current_step>>
    /\ UNCHANGED <<mods, registry, story, validator, status, results,
                   target_url, loc, logfile, tsDir, tsFiles, jmxDir, tvars, cvars>>

\* the tally and step 5 marked completed
S5Tally(w) ==
    /\ pc[w] = "s5_tally"
    /\ UpdateStepStatus(w, 4, "completed", TallyMessage(loc[w].validation_results))
    /\ SetPc(w, "s5_store")
    /\ UNCHANGED <<mods, registry, story, validator, status, results,
                   target_url, loc, acts, logfile, fsvars, tvars, cvars>>

S5Store(w) ==
    Store(w, "s5_store", "validation", loc[w].validation_results, "s5_status")

\* self.status = "completed"
S5Status(w) ==
    /\ pc[w] = "s5_status"
    /\ status' = [status EXCEPT ![w] = "completed"]
    /\ SetPc(w, "s5_print")
    /\ UNCHANGED <<mods, registry, story, validator, current_step, steps,
                   results, target_url, loc, acts, logfile, fsvars, tvars, cvars>>

\* print(f"... completed successfully!"): still inside the outer try, so a
\* failing write to stdout reaches the outer handler
S5Print(w) ==
    /\ pc[w] = "s5_print"
    /\ \E fault \in BOOLEAN :
         IF fault THEN Raise(w, <<"OSError">>)
         ELSE (SetPc(w, "done") /\ UNCHANGED loc)
    /\ UNCHANGED <<mods, registry, story, validator, status, current_step,
                   steps, results, target_url, acts, logfile, fsvars, tvars, cvars>>

----------------------------------------------------------------------------
(* The environment: other processes (the children of a stage, a workflow    *)
(* running beside this one) create or remove TestSteps_Output.  The         *)
(* directory is read in stage 3 only, so its changes are followed while a  *)
(* workflow is in that stage.                                              *)

InStage3(w) ==
    pc[w] \in {"s3_launch", "s3_wait", "s3_scan_expected", "s3_scan_dir",
               "s3_complete", "s3_store1", "s3_store2", "s3_debug"}

EnvDirAppears ==
    /\ ~tsDir
    /\ \E w \in registry : InStage3(w)
    /\ tsDir' = TRUE
    /\ UNCHANGED <<wfvars, logfile, tsFiles, jmxDir, stamp, reports, tvars, cvars>>

EnvDirDisappears ==
    /\ tsDir
    /\ \E w \in registry : InStage3(w)
    /\ tsDir' = FALSE
    /\ tsFiles' = {}
    /\ UNCHANGED <<wfvars, logfile, jmxDir, stamp, reports, tvars, cvars>>

\* a workflow running beside this one in stage 5 writes a report of its own
\* in the second of the last report: same path, so that report is replaced.
\* It is followed between one report of this workflow and its next check.
InStage5(w) == pc[w] = "s5_validate"

EnvReportOverwritten ==
    /\ \E w \in registry : InStage5(w)
    /\ \E r \in reports : r[1] = stamp /\ r[2] # 0
    /\ reports' = ReportWritten(stamp, 0, <<"other">>)
    /\ UNCHANGED <<wfvars, logfile, tsDir, tsFiles, jmxDir, stamp, tvars, cvars>>

----------------------------------------------------------------------------
(* The orchestrator *)

\* one step of the background thread of workflow w
ThreadStep(w) ==
    \/ Begin(w) \/ S1Start(w) \/ S1Plan(w)
    \/ S2Check(w) \/ S2Task(w) \/ S2Launch(w) \/ S2Return(w) \/ S2Store(w)
    \/ S3Check(w) \/ S3Mkdir(w) \/ S3Launch(w) \/ S3Return(w)
    \/ S3ScanExpected(w) \/ S3ScanDir(w) \/ S3Complete(w)
    \/ S3Store1(w) \/ S3Store2(w) \/ S3Debug(w)
    \/ S4Check(w) \/ S4Mkdir(w) \/ S4Launch(w) \/ S4Return(w) \/ S4Scan(w)
    \/ S4Store1(w) \/ S4Store2(w)
    \/ S5Check(w) \/ S5Get(w) \/ S5Validate(w) \/ S5Report(w) \/ S5Tally(w)
    \/ S5Store(w) \/ S5Status(w) \/ S5Print(w)
    \/ SetFailed(w) \/ ExcStatus(w) \/ ExcMark(w)

\* Spec follows one workflow from its submission to its end: the first
\* request of the first client that starts one; the workflows that run
\* beside it act on the shared directories through the environment actions
FirstSubmission ==
    /\ registry = {}
    /\ \E message \in Messages :
          /\ ChatCase(FirstClient, Strip(message)) = "WorkflowStarted"
          /\ ChatRequest(FirstClient, message)

Next ==
    \/ FirstSubmission
    \/ \E w \in Workflows : ThreadStep(w)
    \/ EnvDirAppears
    \/ EnvDirDisappears
    \/ EnvReportOverwritten

Spec == Init /\ [][Next]_vars

\* every started thread keeps being scheduled
SpecLive == Spec /\ \A w \in Workflows : WF_vars(ThreadStep(w))

\* the client whose workflow Spec follows sends a reset while it is
\* registered
ResetRequest ==
    /\ registry # {}
    /\ ChatRequest(FirstClient, <<"s", "Z", "N">>)

NextReset == Next \/ ResetRequest

\* Spec with the reset request, every started thread being scheduled
SpecReset ==
    Init /\ [][NextReset]_vars /\ \A w \in Workflows : WF_vars(ThreadStep(w))

\* the workflow Spec follows is not the first to run in the working
\* directory: JMX_SCRIPT_OUTPUT is created with exist_ok and never emptied,
\* so it holds the scripts the workflows before it left there
InitLater ==
    /\ mods \in [ModuleNames -> BOOLEAN]
    /\ NoWorkflows
    /\ tsDir = FALSE
    /\ tsFiles = {}
    /\ jmxDir \in SUBSET JmxScripts
    /\ stamp = 0
    /\ reports = {}
    /\ logfile = InitialLog
    /\ session = [s \in Sessions |-> PageLoaded(FreshSession)]
    /\ reply = NoReply
    /\ polled = NoPoll
    /\ TaskIdle

SpecLater == InitLater /\ [][Next]_vars

\* Spec with a caller that polls the status of the workflows while their
\* threads run
NextPoll ==
    \/ Next
    \/ \E workflow_id \in Workflows : StatusRead(workflow_id)
    \/ StatusSend

SpecPoll == Init /\ [][NextPoll]_vars

----------------------------------------------------------------------------
(* The presentation layer: every request of every client.  The threads of  *)
(* the workflows it starts are followed up to the launch of the traffic    *)
(* capture, the last step that depends on the shared task resource; a      *)
(* thread that has launched it is still running.                           *)

\* what the clients send: white space only, the reset word in capitals
\* between white space, and the messages of Messages: a story without a
\* URL and two stories with one
ChatMessages ==
    Messages \cup { <<"s">>, <<"s", "Z", "N">> }

\* the state after startup: the first client is a browser that has loaded
\* the page, the others post to the chat route without having loaded it
InitChat ==
    /\ mods \in [ModuleNames -> BOOLEAN]
    /\ WfInit
    /\ logfile = InitialLog
    /\ session = [s \in Sessions |-> IF s = FirstClient
                                      THEN PageLoaded(FreshSession)
                                      ELSE FreshSession]
    /\ reply = NoReply
    /\ polled = NoPoll
    /\ TaskIdle

\* one step of the background thread of workflow w up to the launch of
\* log.py, or to its end when the task write failed
ThreadStepToLaunch(w) ==
    \/ Begin(w) \/ S1Start(w) \/ S1Plan(w)
    \/ S2Check(w) \/ S2Task(w) \/ S2Launch(w)
    \/ SetFailed(w)

NextChat ==
    \/ \E s \in Sessions, message \in ChatMessages : ChatRequest(s, message)
    \/ \E s \in Sessions : Index(s)
    \/ \E w \in Workflows : ThreadStepToLaunch(w)

SpecChat == InitChat /\ [][NextChat]_vars

----------------------------------------------------------------------------
(* The second front-end, src/app2.py: execute_automated_workflow runs the   *)
(* same five stages in the user's script run and keeps automation_status    *)
(* and workflow_step in the session state.  It is a function of what the    *)
(* stages do:                                                               *)
(*   task_ok      update_task_in_log_file returned a URL                    *)
(*   log, ts, pt  how the child of stage 2, 3, 4 ends (RunKinds)            *)
(*   ts_main, pt_main    the module of stage 3, 4 has a main() function     *)
(*   ts_raises, pt_raises  that main() raises                               *)
(*   makedirs_ok  os.makedirs('JMX_SCRIPT_OUTPUT') did not raise            *)
(*   validator    self.validator is not None                                *)
(*   jmx_files    the .jmx files found in JMX_SCRIPT_OUTPUT                 *)
(*   check_raised a call of the validator raised                            *)

\* st.session_state after a stage failed: automation_status = "failed" and
\* workflow_step where it stood
Failed2(workflow_step) ==
    [automation_status |-> "failed", workflow_step |-> workflow_step]

\* st.session_state after the last stage: completed, workflow_step = 5
Completed2 == [automation_status |-> "completed", workflow_step |-> 5]

\* result of stage 3 or 4: if hasattr(module, 'main') the dict built around
\* the value main() returned, else what run_script_with_timeout returns
StageResult2(has_main, kind, timeout) ==
    IF has_main THEN [status |-> "success", output |-> <<"out">>]
    ELSE RunScriptResult(kind, timeout)

\* result.get("success", True)
Success2(result) ==
    IF "success" \in DOMAIN result THEN result.success ELSE TRUE

\* execute_automated_workflow(user_story): the session state it ends with
ExecuteAutomatedWorkflow(o) ==
    IF ModuleMissing("log") THEN Failed2(1)
    ELSE IF ~o.task_ok THEN Failed2(1)
    ELSE IF ~RunScriptResult(o.log, TimeoutLog).success THEN Failed2(1)
    ELSE IF ModuleMissing("TestSteps") THEN Failed2(2)
    ELSE IF o.ts_main /\ o.ts_raises THEN Failed2(2)
    ELSE IF ~Success2(StageResult2(o.ts_main, o.ts, TimeoutTestSteps))
         THEN Failed2(2)
    ELSE IF ModuleMissing("PTScript") THEN Failed2(3)
    ELSE IF ~o.makedirs_ok THEN Failed2(3)
    ELSE IF o.pt_main /\ o.pt_raises THEN Failed2(3)
    ELSE IF ~Success2(StageResult2(o.pt_main, o.pt, TimeoutPTScript))
         THEN Failed2(3)
    ELSE IF ~mods["validation"] \/ ~o.validator THEN Failed2(4)
    ELSE IF NoJmxFiles(o.jmx_files) THEN Failed2(4)
    ELSE IF o.check_raised THEN Failed2(4)
    ELSE Completed2

----------------------------------------------------------------------------
(* Properties of the orchestrator *)

Terminal == {"completed", "failed"}

StepStatus(w, i) == steps[w][i].status

\* the stage (step index) a results key belongs to
StageOfKey(k) ==
    CASE k = "network_logging" -> 1
      [] k \in {"test_steps", "output_files", "teststeps_debug"} -> 2
      [] k \in {"jmx_generation", "jmx_files"} -> 3
      [] OTHER -> 4

\* the stage (step index) an external action belongs to
StageOfAct(a) ==
    CASE a[1] = "task_write" -> 1
      [] a[1] = "run" /\ a[2] = "log.py" -> 1
      [] a[1] = "run" /\ a[2] = "TestSteps.py" -> 2
      [] a[1] = "run" /\ a[2] = "PTScript.py" -> 3
      [] OTHER -> 4

\* C1: fail-fast.  In every reachable state, when step k of a workflow is
\* failed every later step is pending, no external action of a later stage
\* has been performed and results holds no entry of a later stage.
C1_FailFast ==
    \A w \in Workflows, k \in StepIdx :
        StepStatus(w, k) = "failed" =>
            /\ \A j \in StepIdx : j > k => StepStatus(w, j) = "pending"
            /\ \A key \in DOMAIN results[w] : StageOfKey(key) <= k
            /\ \A i \in DOMAIN acts[w] : StageOfAct(acts[w][i]) <= k

\* C1 witness: a workflow has ended with a failed stage before the last one,
\* after that stage's subprocess was launched
C1_Witness ==
    \E w \in Workflows, k \in 1..3 :
        /\ pc[w] = "done"
        /\ StepStatus(w, k) = "failed"
        /\ \E i \in DOMAIN acts[w] : acts[w][i][1] = "run"

\* the stage's collaborator is unavailable: its module did not load or, for
\* validation, the validator could not be built
Unavailable(w, i) ==
    \/ i = 1 /\ ~mods["log"]
    \/ i = 2 /\ ~mods["TestSteps"]
    \/ i = 3 /\ ~mods["PTScript"]
    \/ i = 4 /\ (~mods["validation"] \/ ~validator[w])

C3_TerminalIsFinal ==
    [][\A w \in Workflows, i \in StepIdx :
          StepStatus(w, i) \in Terminal =>
              steps'[w][i].status = StepStatus(w, i)]_vars

\* C4: at most one step is running; every step below a running step is
\* completed or failed; no step above a failed step is running or completed.
C4_OneRunning ==
    \A w \in Workflows :
        /\ Cardinality({i \in StepIdx : StepStatus(w, i) = "running"}) <= 1
        /\ \A i \in StepIdx : StepStatus(w, i) = "running" =>
              \A j \in StepIdx : j < i => StepStatus(w, j) \in Terminal
        /\ \A k \in StepIdx : StepStatus(w, k) = "failed" =>
              \A j \in StepIdx : j > k =>
                  StepStatus(w, j) \notin {"running", "completed"}

\* C4 witness: step 4 is running above three completed steps
C4_Witness ==
    \E w \in Workflows :
        /\ StepStatus(w, 3) = "running"
        /\ \A j \in 0..2 : StepStatus(w, j) = "completed"

StatusRank(s) ==
    CASE s = "none" -> 0
      [] s = "initializing" -> 1
      [] s = "running" -> 2
      [] OTHER -> 3

\* C5: workflow status never moves backward along initializing, running,
\* (completed | failed), and a completed or failed status never changes.
C5_StatusMonotonic ==
    [][\A w \in Workflows :
          /\ StatusRank(status'[w]) >= StatusRank(status[w])
          /\ status[w] \in Terminal => status'[w] = status[w]]_vars

\* a stage has succeeded when its step was marked completed: stage 1 leaves
\* target_url, each later stage the results entry stored after the mark
AllStagesSucceeded(w) ==
    /\ target_url[w] # None
    /\ {"network_logging", "test_steps", "jmx_generation", "validation"}
          \subseteq DOMAIN results[w]

\* C6: a workflow has ended completed exactly when all five stages
\* succeeded; then all five steps are completed and the tally reported for
\* n >= 1 scripts that all passed is passed = n, warning = 0, failed = 0.
C6_CompletedIffAllSucceeded ==
    \A w \in Workflows :
        pc[w] = "done" =>
            /\ status[w] = "completed" <=> AllStagesSucceeded(w)
            /\ status[w] = "completed" =>
                  LET vrs == results[w]["validation"]
                      n == Len(results[w]["jmx_files"])
                  IN  /\ \A i \in StepIdx : StepStatus(w, i) = "completed"
                      /\ n >= 1
                      /\ Len(vrs) = n
                      /\ (\A i \in 1..n : OverallStatus(vrs[i].result) = "pass")
                            => steps[w][4].message = <<"ValidationComplete", n, 0, 0>>

\* C7: when an exception reaches the handler of execute_workflow, the step
\* it marks failed is the step that was running.
C7_HandlerBlamesRunningStep ==
    \A w \in Workflows :
        pc[w] \in {"exc", "exc_mark"} => StepStatus(w, BlamedStep(w)) = "running"

\* C8: every workflow created eventually reaches status completed or failed,
\* and one that has ended failed has exactly one failed step, whose message
\* is not empty.
C8_EventuallyTerminal ==
    /\ \A w \in Workflows :
          (w \in registry) ~> (status[w] \in Terminal)
    /\ [](\A w \in Workflows :
            (pc[w] = "done" /\ status[w] = "failed") =>
                /\ Cardinality({i \in StepIdx : StepStatus(w, i) = "failed"}) = 1
                /\ \A i \in StepIdx :
                      StepStatus(w, i) = "failed" => steps[w][i].message # <<>>)

\* the positions of acts[w] at which the script was launched
Runs(w, script) ==
    {i \in DOMAIN acts[w] : acts[w][i][1] = "run" /\ acts[w][i][2] = script}

\* the script launched last by workflow w, "none" before the first launch
LastRun(w) ==
    LET runs == {i \in DOMAIN acts[w] : acts[w][i][1] = "run"}
    IN  IF runs = {} THEN "none"
        ELSE acts[w][CHOOSE i \in runs : \A k \in runs : k <= i][2]

\* the task write of workflow w met an I/O fault
TaskWriteFaulted(w) ==
    \E i \in DOMAIN acts[w] :
        acts[w][i][1] = "task_write" /\ acts[w][i][2] # "none"

C14_RunnerRecord ==
    \A w \in Workflows :
        loc[w].ended # "none" =>
            LET r == loc[w].result
                kind == loc[w].ended
            IN  /\ DOMAIN r = {"success", "returncode", "stdout", "stderr"}
                /\ r.success \in BOOLEAN
                /\ kind \in {"exit0", "exit1"} =>
                      /\ r.returncode >= 0
                      /\ r.success <=> (r.returncode = 0)
                /\ kind \in {"timeout", "fault"} =>
                      /\ ~r.success
                      /\ r.returncode = -1
                      /\ r.stderr # <<>>

\* C14 witness: the runner has returned its record for a child that timed out
C14_Witness ==
    \E w \in Workflows :
        /\ loc[w].ended = "timeout"
        /\ loc[w].result.stderr = <<"timed out after", TimeoutTestSteps>>

\* the step of the stage that runs the script, and the timeout the stage is
\* to give it
StepOfScript(script) ==
    CASE script = "log.py" -> 1
      [] script = "TestSteps.py" -> 2
      [] OTHER -> 3

\* C15: log.py is run with timeout 300, TestSteps.py with 120, PTScript.py
\* with 180; when a stage's child fails or times out the step is failed
\* with a message that holds the runner's stderr unchanged, which for a
\* PTScript.py timeout names 180 seconds.
C15_StageTimeoutsAndStderr ==
    \A w \in Workflows :
        /\ \A i \in DOMAIN acts[w] :
              acts[w][i][1] = "run" =>
                  acts[w][i][3] = CASE acts[w][i][2] = "log.py" -> 300
                                    [] acts[w][i][2] = "TestSteps.py" -> 120
                                    [] OTHER -> 180
        /\ (pc[w] = "done" /\ LastRun(w) # "none" /\ loc[w].ended # "exit0") =>
              LET k == StepOfScript(LastRun(w))
              IN  /\ StepStatus(w, k) = "failed"
                  /\ Len(steps[w][k].message) = 2
                  /\ steps[w][k].message[2] = loc[w].result.stderr
                  /\ (LastRun(w) = "PTScript.py" /\ loc[w].ended = "timeout") =>
                        steps[w][k].message[2] = <<"timed out after", 180>>

\* C15 witness: a workflow has ended after PTScript.py timed out
C15_Witness ==
    \E w \in Workflows :
        /\ pc[w] = "done"
        /\ LastRun(w) = "PTScript.py"
        /\ loc[w].ended = "timeout"

\* C16: no retries: in one workflow the task write, each of the three
\* launches and the validation of each script happen at most once.
C16_NoRetries ==
    \A w \in Workflows :
        /\ Cardinality({i \in DOMAIN acts[w] : acts[w][i][1] = "task_write"}) <= 1
        /\ \A script \in {"log.py", "TestSteps.py", "PTScript.py"} :
              Cardinality(Runs(w, script)) <= 1
        /\ \A i, j \in DOMAIN acts[w] :
              (acts[w][i][1] = "validate" /\ acts[w][i] = acts[w][j]) => i = j

\* C16 witness: a workflow has ended failed on the exit code of log.py,
\* which it launched once
C16_Witness ==
    \E w \in Workflows :
        /\ pc[w] = "done"
        /\ status[w] = "failed"
        /\ LastRun(w) = "log.py"
        /\ loc[w].ended = "exit1"
        /\ Cardinality(Runs(w, "log.py")) = 1

\* C17: stages are sequential: an external action of a stage has been
\* performed only when every earlier step is completed, and steps of two
\* stages are never running together.
C17_StagesSequential ==
    \A w \in Workflows :
        /\ \A i \in DOMAIN acts[w] :
              \A j \in StepIdx :
                  j < StageOfAct(acts[w][i]) => StepStatus(w, j) = "completed"
        /\ \A i, j \in StepIdx :
              (StepStatus(w, i) = "running" /\ StepStatus(w, j) = "running")
                  => i = j

\* C17 witness: PTScript.py has been launched with steps 1 to 3 completed
\* and step 4 running
C17_Witness ==
    \E w \in Workflows :
        /\ Runs(w, "PTScript.py") # {}
        /\ StepStatus(w, 3) = "running"
        /\ \A j \in 0..2 : StepStatus(w, j) = "completed"

\* TestSteps.py of workflow w exited with code 0
TestStepsExitedZero(w) ==
    \/ Runs(w, "PTScript.py") # {}
    \/ LastRun(w) = "TestSteps.py" /\ loc[w].ended = "exit0"

\* C18: the artifact scan never fails: a workflow whose TestSteps.py exited
\* with code 0 has ended with step 3 completed, whatever the directory held
\* and whenever it existed.
C18_ScanNeverFails ==
    \A w \in Workflows :
        (pc[w] = "done" /\ TestStepsExitedZero(w)) =>
            StepStatus(w, 2) = "completed"

\* the validator's per-file check was invoked by workflow w
Validated(w) == {i \in DOMAIN acts[w] : acts[w][i][1] = "validate"}

\* C19: when script generation succeeded and the scan found no .jmx file,
\* step 4 is completed, step 5 and the workflow end failed and the
\* validator's per-file check is never invoked.
C19_NoScriptsFailsValidation ==
    \A w \in Workflows :
        ("jmx_files" \in DOMAIN results[w] /\ results[w]["jmx_files"] = <<>>) =>
            /\ StepStatus(w, 3) = "completed"
            /\ Validated(w) = {}
            /\ pc[w] = "done" =>
                  /\ StepStatus(w, 4) = "failed"
                  /\ status[w] = "failed"

\* C19 witness: a workflow with a validator has ended on the empty list
C19_Witness ==
    \E w \in Workflows :
        /\ pc[w] = "done"
        /\ validator[w]
        /\ "jmx_files" \in DOMAIN results[w]
        /\ results[w]["jmx_files"] = <<>>
        /\ steps[w][4].message = <<"NoJmxFiles">>

\* C20: when the validator raises on the i-th script the later scripts are
\* not checked, step 5 and the workflow end failed, results has no
\* validation entry, no tally is reported, and the reports written for
\* scripts 1..i-1 are still there.
C20_ValidatorRaiseAborts ==
    \A w \in Workflows :
        (pc[w] = "done" /\ Cardinality(Validated(w)) > Len(loc[w].validation_results)) =>
            LET i == Len(loc[w].validation_results) + 1
            IN  /\ Cardinality(Validated(w)) = i
                /\ StepStatus(w, 4) = "failed"
                /\ status[w] = "failed"
                /\ "validation" \notin DOMAIN results[w]
                /\ steps[w][4].message[1] # "ValidationComplete"
                /\ \A k \in 1..(i - 1) :
                      \E r \in reports : r[2] = w /\ r[3] = loc[w].jmx_files[k]

\* the report files that hold a report of workflow w
ReportsOf(w) == {r \in reports : r[2] = w}

\* C21: after the validation of n scripts has completed, n distinct report
\* files have been written, one per script, also when several scripts were
\* validated within one clock second.
C21_OneReportPerScript ==
    \A w \in Workflows :
        "validation" \in DOMAIN results[w] =>
            LET vrs == results[w]["validation"]
            IN  /\ Cardinality(ReportsOf(w)) = Len(vrs)
                /\ \A k \in DOMAIN vrs :
                      \E r \in ReportsOf(w) : r[3] = vrs[k].file

\* C28: results is append-only: a key once present stays, with the value
\* stored under it, so the entries of completed stages remain after a later
\* stage has failed.
C28_ResultsAppendOnly ==
    [][\A w \in Workflows :
          \A k \in DOMAIN results[w] :
              /\ k \in DOMAIN results'[w]
              /\ results'[w][k] = results[w][k]]_vars

\* C28 witness: a workflow has ended failed in stage 4 with the entries of
\* stages 2 and 3 in results
C28_Witness ==
    \E w \in Workflows :
        /\ pc[w] = "done"
        /\ status[w] = "failed"
        /\ StepStatus(w, 3) = "failed"
        /\ {"network_logging", "test_steps", "output_files"}
              \subseteq DOMAIN results[w]

\* C29: in every state a polling caller can observe, status is failed
\* exactly when one step is failed, and status is completed exactly when all
\* five steps are completed.
C29_StatusAgreesWithSteps ==
    \A w \in registry :
        /\ status[w] = "failed" <=>
              Cardinality({i \in StepIdx : StepStatus(w, i) = "failed"}) = 1
        /\ status[w] = "completed" <=>
              \A i \in StepIdx : StepStatus(w, i) = "completed"

\* the results keys each of steps 2..5 stores
KeysOfStep(i) ==
    CASE i = 1 -> {"network_logging"}
      [] i = 2 -> {"test_steps", "output_files"}
      [] i = 3 -> {"jmx_generation", "jmx_files"}
      [] OTHER -> {"validation"}

\* C30: in every state a polling caller can observe, each of steps 2..5 is
\* completed exactly when results holds the entries of its stage, and no
\* entry of a stage is present when its step is failed.
C30_CompletedIffResult ==
    \A w \in registry, i \in 1..4 :
        /\ StepStatus(w, i) = "completed" <=>
              KeysOfStep(i) \subseteq DOMAIN results[w]
        /\ StepStatus(w, i) = "failed" =>
              KeysOfStep(i) \cap DOMAIN results[w] = {}

\* the artifacts of a list of validation results that carry one of the
\* three verdicts
Classified(vrs) ==
    {i \in DOMAIN vrs :
        OverallStatus(vrs[i].result) \in {"pass", "warning", "fail"}}

\* the three counts reported when step 5 was completed
Counted(w) ==
    steps[w][4].message[2] + steps[w][4].message[3] + steps[w][4].message[4]

\* C32: for n validated artifacts passed + warning + failed <= n, with
\* equality exactly when every overall_status is pass, warning or fail; an
\* artifact with another or a missing overall_status is counted nowhere.
C32_TallyBounded ==
    \A w \in Workflows :
        StepStatus(w, 4) = "completed" =>
            LET vrs == loc[w].validation_results
            IN  /\ Counted(w) <= Len(vrs)
                /\ Counted(w) = Len(vrs) <=> Classified(vrs) = DOMAIN vrs
                /\ Counted(w) = Cardinality(Classified(vrs))

\* C32 witness: two artifacts were validated, one without a verdict and one
\* with a verdict the tally does not know: nothing was counted
C32_Witness ==
    \E w \in Workflows :
        /\ StepStatus(w, 4) = "completed"
        /\ Len(loc[w].validation_results) = 2
        /\ OverallStatus(loc[w].validation_results[1].result) = "None"
        /\ OverallStatus(loc[w].validation_results[2].result) = "other"
        /\ Counted(w) = 0

\* every call of the validator made for workflow w has returned: each script
\* found was validated and its report written
ValidatorCallsReturned(w) ==
    /\ loc[w].jmx_files # <<>>
    /\ Len(loc[w].validation_results) = Len(loc[w].jmx_files)
    /\ Cardinality({i \in DOMAIN acts[w] : acts[w][i][1] = "report"})
           = Len(loc[w].jmx_files)

\* C33: the terminal status does not depend on the verdicts: when every
\* validator call has returned without raising, step 5 and the workflow end
\* completed, even when every artifact is classified fail.
C33_VerdictsDoNotDecide ==
    \A w \in Workflows :
        (pc[w] = "done" /\ ValidatorCallsReturned(w)) =>
            /\ status[w] = "completed"
            /\ StepStatus(w, 4) = "completed"

\* the scripts the script-generation stage of workflow w produced
OwnScripts(w) == {f \in loc[w].produced : IsJmx(f)}

\* C34: the artifacts a workflow records in jmx_files and validates are
\* exactly the scripts its own script-generation stage produced: a .jmx
\* file left in the output directory by an earlier workflow is neither
\* recorded nor validated.
C34_OnlyOwnScripts ==
    \A w \in Workflows :
        /\ "jmx_files" \in DOMAIN results[w] =>
               Range(results[w]["jmx_files"]) = OwnScripts(w)
        /\ \A i \in Validated(w) : acts[w][i][2] \in OwnScripts(w)

\* the index of the highest-indexed step that is not pending, 0 when all are
HighestTouched(st) ==
    LET touched == {i \in StepIdx : st[i].status # "pending"}
    IN  IF touched = {} THEN 0
        ELSE CHOOSE i \in touched : \A j \in touched : j <= i

\* C31: current_step as returned by the status call never decreases and
\* equals the index of the highest-indexed step that is not pending (0 when
\* all are pending); update_step_status with an index outside 0..4 changes
\* nothing.
C31_CurrentStepIsHighestTouched ==
    /\ [][\A w \in Workflows : current_step'[w] >= current_step[w]]_vars
    /\ [][(polled # NoPoll /\ polled' = NoPoll) =>
             StatusSent.current_step = HighestTouched(StatusSent.steps)]_vars
    /\ [](\A w \in Workflows, step_index \in {-1, 5} :
             /\ StepsAfterUpdate(steps[w], step_index, "failed", <<"x">>) = steps[w]
             /\ CurrentAfterUpdate(current_step[w], step_index) = current_step[w])

\* how the child of a stage of workflow w ended: with exit code 0 when the
\* stage stored its result, as the runner saw it when the stage was the
\* last to launch one
StageKind(w, script, key) ==
    IF key \in DOMAIN results[w] THEN "exit0"
    ELSE IF LastRun(w) = script THEN loc[w].ended
    ELSE "exit0"

\* what the stages did in the run of workflow w, with the main() functions
\* the modules of stages 3 and 4 may have
Outcomes(w, ts_main, pt_main, ts_raises, pt_raises) ==
    [task_ok |-> Runs(w, "log.py") # {},
     log |-> StageKind(w, "log.py", "network_logging"),
     ts_main |-> ts_main, ts_raises |-> ts_raises,
     ts |-> StageKind(w, "TestSteps.py", "test_steps"),
     makedirs_ok |-> loc[w].exc = <<>>,
     pt_main |-> pt_main, pt_raises |-> pt_raises,
     pt |-> StageKind(w, "PTScript.py", "jmx_generation"),
     validator |-> validator[w],
     jmx_files |-> loc[w].jmx_files,
     check_raised |-> /\ steps[w][4].message # <<>>
                      /\ steps[w][4].message[1] = "ValidationFailed"]

\* a main() raises only where the stage's script does not exit with code 0
MainLikeScript(w, ts_main, pt_main, ts_raises, pt_raises) ==
    /\ ts_raises => (ts_main /\ StageKind(w, "TestSteps.py", "test_steps") # "exit0")
    /\ pt_raises => (pt_main /\ StageKind(w, "PTScript.py", "jmx_generation") # "exit0")

\* the run of workflow w met what the stages did and no other fault: no
\* exception reached the handler of execute_workflow
EndedWithoutException(w) == pc[w] = "done" /\ loc[w].exc = <<>>

\* the session state of app2.py agrees with the workflow of app.py: same
\* terminal status, and the same stage failed
SameEnd(w, r) ==
    /\ r.automation_status = status[w]
    /\ status[w] = "failed" => StepStatus(w, r.workflow_step) = "failed"

\* C35: for every combination of stage outcomes execute_workflow of app.py
\* and execute_automated_workflow of app2.py end in the same terminal status
\* and fail at the same stage, also when the module of stage 3 or 4 has a
\* main() function.
C35_FrontEndsAgree ==
    \A w \in Workflows, ts_main, pt_main, ts_raises, pt_raises \in BOOLEAN :
        (/\ EndedWithoutException(w)
         /\ MainLikeScript(w, ts_main, pt_main, ts_raises, pt_raises)) =>
            SameEnd(w, ExecuteAutomatedWorkflow(
                Outcomes(w, ts_main, pt_main, ts_raises, pt_raises)))

----------------------------------------------------------------------------
(* Properties of the presentation layer *)

\* the message is empty after trimming
EmptyMessage(message) == Strip(message) = <<>>

\* the message is a story (not empty, not a reset word) without any
\* URL-shaped substring
NoUrlStory(message) ==
    /\ Strip(message) # <<>>
    /\ Lower(Strip(message)) \notin ResetWords
    /\ FindAllUrls(Strip(message), 1) = <<>>

\* C22: a submission whose message is empty after trimming or holds no URL
\* creates no workflow: the registry is unchanged and no thread is started;
\* for the story without URL the client receives the request to include one.
C22_RejectedSubmission ==
    [][\A s \in Sessions, message \in ChatMessages :
          ((EmptyMessage(message) \/ NoUrlStory(message))
              /\ ChatRequest(s, message)) =>
                  /\ registry' = registry
                  /\ pc' = pc
                  /\ NoUrlStory(message) => reply' = "ProvideUrl"]_vars

\* the ids start_automated_workflow has returned: those whose workflow
\* object was built and whose thread was started
Returned == {w \in Workflows : pc[w] # "none"}

\* C23: the registry only grows: a workflow is registered before its thread
\* takes any step and is never removed, so workflow_status answers not
\* found exactly for the ids no submission returned.
C23_RegistryOnlyGrows ==
    /\ [](\A w \in Workflows :
            /\ w \in Returned => w \in registry
            /\ WorkflowStatus(w) = NotFound <=> w \notin Returned)
    /\ [](\A s \in Sessions :
            session[s].current_workflow # NoWorkflow =>
                WorkflowStatus(session[s].current_workflow) # NotFound)
    /\ [][registry \subseteq registry']_vars

\* C23 witness: the first workflow has ended and is still found, the id no
\* submission returned is not
C23_Witness ==
    /\ pc[1] = "done"
    /\ WorkflowStatus(1) # NotFound
    /\ WorkflowStatus(1).status = "failed"
    /\ 2 \notin Returned
    /\ WorkflowStatus(2) = NotFound

\* C24: when one of the four stage modules failed to load no workflow is
\* created, whatever is submitted: no thread exists, and no step of any
\* stage is run or marked.
C24_NoModulesNoWorkflow ==
    (\E m \in ModuleNames : ~mods[m]) =>
        /\ registry = {}
        /\ \A w \in Workflows :
              /\ pc[w] = "none"
              /\ status[w] = "none"
              /\ steps[w] = InitialSteps
              /\ acts[w] = <<>>
              /\ results[w] = EmptyResults

\* C24 witness: with the validation module alone missing a client was told
\* that no workflow can start
C24_Witness ==
    /\ ~mods["validation"]
    /\ \A m \in ModuleNames \ {"validation"} : mods[m]
    /\ reply = "CannotStart"

\* the registered workflows that are initializing or running
Active == {w \in registry : status[w] \in {"initializing", "running"}}

\* C25: after any sequence of chat requests, resets and requests of other
\* clients included, at most one registered workflow is initializing or
\* running.
C25_AtMostOneActive == Cardinality(Active) <= 1

\* the block the writer leaves for a story: the template's expansion when
\* it replaced a block, the block as built when it inserted one
BlockWritten(user_story, path) ==
    LET newTask == NewTask(TaskTargetUrl(user_story), user_story)
    IN  IF path = "replace" THEN ExpandTemplate(newTask, 1) ELSE newTask

\* the text holds the block written for the story
HoldsBlockFor(c, user_story) ==
    \/ Contains(c, BlockWritten(user_story, "insert"))
    \/ /\ TemplateOk(NewTask(TaskTargetUrl(user_story), user_story), 1)
       /\ Contains(c, BlockWritten(user_story, "replace"))

\* workflow w has launched its traffic capture
Launched(w) == loc[w].task_at_launch # None

\* C26: with a single workflow the task block log.py is launched with is
\* always the one written for that workflow's story.  (With two workflows
\* the launch of one with the block of the other is reachable: the witness.)
C26_SingleWorkflowOwnBlock ==
    \A w \in Workflows :
        (Launched(w) /\ Returned = {w}) =>
            HoldsBlockFor(loc[w].task_at_launch, story[w])

\* C26 witness: two workflows with different stories; the traffic capture
\* of one was launched while the file held the block written for the
\* other's story and not its own
C26_Witness ==
    \E a, b \in Workflows :
        /\ a # b
        /\ story[a] # story[b]
        /\ Launched(a)
        /\ \E i \in DOMAIN acts[b] : acts[b][i] = <<"task_write", "none">>
        /\ HoldsBlockFor(loc[a].task_at_launch, story[b])
        /\ ~HoldsBlockFor(loc[a].task_at_launch, story[a])

\* the requests of the clients leave every registered workflow as it is
CallerFrame ==
    [][\A s \in Sessions :
          (Index(s) \/ \E message \in ChatMessages : ChatRequest(s, message)) =>
              \A w \in registry :
                  /\ status'[w] = status[w]
                  /\ steps'[w] = steps[w]
                  /\ results'[w] = results[w]
                  /\ pc'[w] = pc[w]]_vars

\* C27: no request of a caller aborts or alters a workflow: reset, a new
\* submission and the status routes leave status, steps and results of
\* every registered workflow unchanged, and a workflow that is running when
\* a reset is answered goes on to completed or failed.
C27_CallerCannotAbort ==
    /\ CallerFrame
    /\ \A w \in Workflows :
          (reply = "ResetComplete" /\ w \in registry /\ status[w] = "running")
              ~> (status[w] \in Terminal)

----------------------------------------------------------------------------
(* The task writer on its own: every resource and story of the bounds *)

MaxPieces == 2
MaxStoryPieces == 2

ContentPieces ==
    { <<"I", "x", "N">>,
      <<"x", "N">>,
      <<"T", "s", "=", "s", "q", "q", "q", "x", "q", "q", "q", "N">>,
      <<"T", "=", "q", "q", "q", "x", "N">>,
      <<"F", "x">> }

StoryPieces ==
    { <<"x">>, <<"s">>, <<"H", "x">>, <<"H", "n">>, <<"b", "n">>, <<"b", "b">>,
      <<"b", "x">>, <<"q", "q", "q">> }

RECURSIVE Concats(_, _)
Concats(pieces, k) ==
    IF k = 0 THEN {<<>>}
    ELSE LET shorter == Concats(pieces, k - 1)
         IN  shorter \cup {a \o p : a \in shorter, p \in pieces}

Contents == Concats(ContentPieces, MaxPieces)
TaskStories == Concats(StoryPieces, MaxStoryPieces) \ {<<>>}

InitTask ==
    /\ mods = [m \in ModuleNames |-> TRUE]
    /\ WfInit
    /\ logfile \in Contents
    /\ session = [s \in Sessions |-> PageLoaded(FreshSession)]
    /\ reply = NoReply
    /\ polled = NoPoll
    /\ tStory \in TaskStories
    /\ tApplied = 0
    /\ tFirst = <<>>
    /\ tRet = None
    /\ tPath = "none"

\* one call of update_task_in_log_file(tStory) without an I/O fault
ApplyWriter ==
    /\ tApplied < 2
    /\ \E r \in {UpdateTaskInLogFile(logfile, tStory, "none")} :
           /\ logfile' = r[2]
           /\ tRet' = r[1]
           /\ tFirst' = IF tApplied = 0 THEN r[2] ELSE tFirst
    /\ tPath' = TaskPath(logfile)
    /\ tApplied' = tApplied + 1
    /\ UNCHANGED <<tStory, wfvars, fsvars, cvars>>

NextTask == ApplyWriter

SpecTask == InitTask /\ [][NextTask]_vars

----------------------------------------------------------------------------
(* Properties of the task writer *)

\* the starts of the URL-shaped substrings of s: a scheme and one more
\* character that is not white space
UrlStarts(s) == {i \in 1..(Len(s) - 1) : s[i] = "H" /\ ~IsSpace(s[i + 1])}

\* the first URL-shaped substring of s, or the fixed default
FirstUrlShaped(s) ==
    IF UrlStarts(s) = {} THEN DefaultUrl
    ELSE LET i == CHOOSE a \in UrlStarts(s) : \A b \in UrlStarts(s) : a <= b
             j == CHOOSE e \in i..Len(s) :
                     /\ \A m \in (i + 1)..e : ~IsSpace(s[m])
                     /\ e = Len(s) \/ IsSpace(s[e + 1])
         IN  SubSeq(s, i, j)

\* C9: target_url is the first URL-shaped substring of the story or the
\* default, and after a write that succeeded the task block of the file
\* names that same value: "I want to go to <target_url>,".
C9_TaskNamesTargetUrl ==
    tApplied >= 1 =>
        /\ ExtractTargetUrl(tStory) = FirstUrlShaped(tStory)
        /\ tRet # None =>
              /\ tRet = ExtractTargetUrl(tStory)
              /\ Contains(logfile,
                          <<"W">> \o ExtractTargetUrl(tStory) \o <<",", "N">>)

\* C10: the writer is idempotent: the file after the second application
\* with the same story is the file after the first.
C10_WriterIdempotent == tApplied = 2 => logfile = tFirst

\* C11: after a write that succeeded the file holds the canonical block
\* with the target URL and the story exactly as given, token for token.
C11_BlockVerbatim ==
    (tApplied >= 1 /\ tRet # None) =>
        Contains(logfile, NewTask(ExtractTargetUrl(tStory), tStory))

\* the end of the line that holds position i: the index of its newline, or
\* one past the end of c
RECURSIVE LineEnd(_, _)
LineEnd(c, i) ==
    IF i > Len(c) \/ c[i] = "N" THEN i ELSE LineEnd(c, i + 1)

\* where the line after the leading run of import lines starts, scanning
\* from the line start i
RECURSIVE LeadingImportsEnd(_, _)
LeadingImportsEnd(c, i) ==
    IF IsImportLine(c, i) THEN LeadingImportsEnd(c, LineEnd(c, i) + 1) ELSE i

\* c with the block inserted as a line of its own before the line that
\* starts at p
InsertedAt(c, p, newTask) ==
    LET item == <<"N">> \o newTask \o <<"N">>
    IN  IF p = Len(c) + 2
        THEN c \o <<"N">> \o item
        ELSE SubSeq(c, 1, p - 1) \o item \o <<"N">> \o SubSeq(c, p, Len(c))

\* C12: when the file holds no TASK block the new block is inserted right
\* after the leading run of import lines (at the top when there is none).
C12_InsertAfterLeadingImports ==
    [][(tApplied = 0 /\ TaskPath(logfile) = "insert") =>
          logfile' = InsertedAt(logfile, LeadingImportsEnd(logfile, 1),
                                NewTask(TaskTargetUrl(tStory), tStory))]_vars

====
